---- MODULE Spec2Model ----
(***************************************************************************)
(* A model of the image analysis pipeline of app.py (KidneyStoneDetector): *)
(* preprocess_image, generate_mock_segmentation, analyze_segmentation,     *)
(* create_highlighted_image and predict, with the process-wide generator   *)
(* of Python's random module as the one piece of state the requests share. *)
(*                                                                         *)
(* Representation.                                                         *)
(*  - A mask is [height, width, background, blobs]: a zero array on which  *)
(*    filled shapes were drawn.  A blob is [shape, p, value]: a filled     *)
(*    axis-aligned block of pixels ("rect", p = <<x0,y0,x1,y1>>, inclusive *)
(*    pixel coordinates) or a filled ellipse as cv2.ellipse draws it       *)
(*    ("ellipse", p = <<cx,cy,a,b,angle>>).                                *)
(*  - cv2's contour functions are modelled on the pixels of these shapes:   *)
(*    blobs whose pixels overlap or touch make one region, a region's      *)
(*    contour is the closed polygon through the centres of its border      *)
(*    pixels, and area and moments are Green's formula over that polygon.  *)
(*    A blob carries the pixels it set, row by row (top, rows); those of   *)
(*    an ellipse are the ones OpenCV's polygon fill sets.                  *)
(*  - "CHOOSE r \in {F(v) : v \in {e}} : TRUE" is F(e) with e evaluated     *)
(*    once.                                                                *)
(*  - An image is [height, width, channels, dtype, src, ops]: the array's  *)
(*    shape and element type, the identity of the pixel content it was     *)
(*    loaded with and the drawing operations applied to it since.  Two     *)
(*    images have the same pixels iff the records are equal.               *)
(*  - Arrays live in a heap (buffer id -> image), so that aliasing between *)
(*    the caller's array and the array drawn on is visible.                *)
(*  - The generator of the random module is a state in 0..RngMod-1 with a  *)
(*    deterministic step; random() is state/RngMod.                        *)
(*  - A call of predict advances in steps: each stage is one step, and in  *)
(*    the segmenter each access to the generator is one step (a call of    *)
(*    random.randint makes one or more).                                   *)
(***************************************************************************)
EXTENDS Integers, Sequences, FiniteSets, TLC

\* ------------------------------------------------------------- bounds
\* The generator has RngMod states.
RngMod == 256
\* Injected masks are at most MaxH rows by MaxW columns; those of two blocks
\* are at most MaxPairH rows.
MaxH == 7
MaxPairH == 5
MaxW == 3

\* ---------------------------------------------------- program constants
MODEL_INPUT_SIZE == 256
STONE_PROBABILITY_PCT == 70
MIN_STONES == 1
MAX_STONES == 3
BORDER_MARGIN == 50
MIN_RADIUS == 8
MAX_RADIUS == 25
MAX_ANGLE == 180
FOREGROUND == 255
BACKGROUND == 0
CONF_LOW_PCT == 85
CONF_HIGH_PCT == 98

Requests == {1, 2}

\* --------------------------------------------------- the random module
\* One step of the generator (a full-period congruential step standing in
\* for the Mersenne Twister's).
RngStep(s) == (5 * s + 3) % RngMod

\* random.random() < 0.7, on the generator state s: random() is s / RngMod.
RandomBelowStoneProbability(s) == 100 * s < STONE_PROBABILITY_PCT * RngMod

\* int.bit_length(n): the least k with n < 2^k.
BitLength(n) == CHOOSE k \in 0 .. 16 : n < 2^k /\ (k = 0 \/ 2^(k - 1) <= n)

\* random.getrandbits(k) on the generator state s: the top k bits of the
\* word the generator gives (random() is the same word over RngMod).
getrandbits(k, s) == (s * 2^k) \div RngMod

\* One pass of the loop of Random._randbelow_with_getrandbits(n), within
\* random.randint(a, b) (n = b - a + 1): r = getrandbits(n.bit_length()),
\* taken unless r >= n.  Each pass is one access to the generator; the caller
\* checks a <= b first (randint raises ValueError on an empty range, before
\* any access).
randint_attempt(a, b, s) ==
    LET r == getrandbits(BitLength(b - a + 1), s)
    IN  [accepted |-> r < b - a + 1, value |-> a + r]

\* random.randint(a, b) with no other draw in between, a <= b: the value and
\* the generator state after the call.
RECURSIVE randint(_, _, _)
randint(a, b, s) ==
    IF randint_attempt(a, b, s).accepted
    THEN [value |-> randint_attempt(a, b, s).value, rng |-> RngStep(s)]
    ELSE randint(a, b, RngStep(s))

\* Confidence values are kept in units of 1 / ConfScale.
ConfScale == 100 * RngMod

\* random.uniform(0.85, 0.98): a + (b - a) * random().
\* (Faulty variant: random.uniform(85, 98), a percentage.)
UniformPercent(s) ==
    100 * (CONF_LOW_PCT * RngMod + (CONF_HIGH_PCT - CONF_LOW_PCT) * s)
uniform_confidence(s) == CONF_LOW_PCT * RngMod + (CONF_HIGH_PCT - CONF_LOW_PCT) * s

\* ------------------------------------------------------------- blobs
Abs(i) == IF i >= 0 THEN i ELSE -i
Max(i, j) == IF i >= j THEN i ELSE j
Min(i, j) == IF i <= j THEN i ELSE j
MinOf(S) == CHOOSE m \in S : \A z \in S : m <= z
MaxOf(S) == CHOOSE m \in S : \A z \in S : m >= z

\* A filled block of pixels: rows y0 .. y1, each the run x0 .. x1.
RectBlob(x0, y0, x1, y1) ==
    [shape |-> "rect", p |-> <<x0, y0, x1, y1>>, value |-> FOREGROUND,
     top |-> y0, rows |-> [i \in 1 .. (y1 - y0 + 1) |-> <<x0, x1>>]]

\* ------------------------------------------- cv2.ellipse, filled (OpenCV)
\* cv2.ellipse(img, center, axes, angle, 0, 360, color, -1) approximates the
\* ellipse by a polygon (ellipse2Poly) in fixed point, XY_SHIFT fractional
\* bits, and fills it (FillConvexPoly): the polygon's edges are drawn as
\* lines (Line2) and the rows between them as runs.

\* OpenCV's SinTable: the sines of 0, 1, ..., 90 degrees, written with seven
\* decimals and stored as float; every entry is a whole number of 1 / SinOne
\* (the entries of 91 .. 450 degrees repeat these, with their sign).
SinOne == 2^29
SinTable ==
    <<
      0, 9369686, 18736526, 28097676, 37450236,
      46791360, 56118312, 65428084, 74717992, 83985136,
      93226664, 102439800, 111621744, 120769704, 129880832,
      138952400, 147981696, 156965856, 165902240, 174788096,
      183620640, 192397296, 201115392, 209772160, 218365056,
      226891472, 235348688, 243734288, 252045648, 260280176,
      268435456, 276508960, 284498272, 292400832, 300214400,
      307936480, 315564832, 323096960, 330530752, 337863808,
      345093952, 352219008, 359236768, 366145088, 372941888,
      379625088, 386192608, 392642528, 398972832, 405181632,
      411266944, 417227072, 423060064, 428764160, 434337696,
      439778880, 445086176, 450257856, 455292352, 460188192,
      464943840, 469557888, 474028896, 478355488, 482536352,
      486570304, 490456000, 494192320, 497778080, 501212160,
      504493632, 507621440, 510594560, 513412224, 516073440,
      518577472, 520923552, 523110976, 525139008, 527007104,
      528714656, 530261120, 531646144, 532869184, 533929888,
      534827968, 535563136, 536135136, 536543840, 536789152,
      536870912
    >>
SinDeg(d) ==
    LET m == d % 360
    IN  IF m <= 90 THEN SinTable[m + 1]
        ELSE IF m <= 180 THEN SinTable[181 - m]
        ELSE IF m <= 270 THEN -SinTable[m - 179]
        ELSE -SinTable[361 - m]
\* SinTable[450 - d]
CosDeg(d) == SinDeg(450 - d)

XY_SHIFT == 16
XY_ONE == 2^XY_SHIFT
XY_HALF == XY_ONE \div 2

\* ellipse2Poly multiplies in double precision, where the products of an axis
\* and two table entries are exact.  Here a number too long for 32 bits is
\* four digits in base Limb, lowest first, all of one sign.
Limb == 2^15
Carry(lo, mid, hi) ==
    <<lo % Limb,
      (mid + lo \div Limb) % Limb,
      (hi + (mid + lo \div Limb) \div Limb) % Limb,
      (hi + (mid + lo \div Limb) \div Limb) \div Limb>>
Sign(n) == IF n < 0 THEN -1 ELSE 1

\* m * n for two table entries.
Times(m, n) ==
    LET u == Abs(m)
        v == Abs(n)
        d == Carry((u % Limb) * (v % Limb),
                   (u \div Limb) * (v % Limb) + (u % Limb) * (v \div Limb),
                   (u \div Limb) * (v \div Limb))
    IN  [i \in 1 .. 4 |-> Sign(m) * Sign(n) * d[i]]

\* cvRound of n * XY_ONE / SinOne^2 for n = a * p + b * q, p and q products of
\* table entries: to the nearest whole number, a half to the even one (the
\* value is n / 2^42; its whole part starts at bit 12 of the third digit).
RoundFixed(a, p, b, q) ==
    LET t == [i \in 1 .. 4 |-> a * p[i] + b * q[i]]
        n == Carry(t[1], t[2], t[3])
        whole == 8 * (t[4] + n[4]) + n[3] \div 4096
        part == n[3] % 4096
    IN  IF part > 2048 \/ (part = 2048 /\ (n[2] # 0 \/ n[1] # 0)) THEN whole + 1
        ELSE IF part = 2048 /\ whole % 2 = 1 THEN whole + 1
        ELSE whole

\* The polygon's vertex at t degrees along the ellipse, in fixed point:
\*   x = axes.width * SinTable[450 - t],  y = axes.height * SinTable[t]
\*   pt.x = center.x + x * alpha - y * beta
\*   pt.y = center.y + x * beta + y * alpha
\* with alpha = SinTable[450 - angle] and beta = SinTable[angle], rounded by
\* EllipseEx (cvRound).
PolyPoint(cx, cy, a, b, angle, t) ==
    <<cx * XY_ONE + RoundFixed(a, Times(CosDeg(t), CosDeg(angle)),
                               -b, Times(SinDeg(t), SinDeg(angle))),
      cy * XY_ONE + RoundFixed(a, Times(CosDeg(t), SinDeg(angle)),
                               b, Times(SinDeg(t), CosDeg(angle)))>>

\* EllipseEx: the step in degrees between the polygon's vertices, by the
\* larger axis.
EllipseDelta(axis) ==
    IF axis < 3 THEN 90 ELSE IF axis < 10 THEN 30 ELSE IF axis < 15 THEN 18 ELSE 5

\* ellipse2Poly(center, axes, angle, 0, 360, delta): the vertices at 0, delta,
\* ..., 360 degrees; EllipseEx then drops a vertex equal to the one before it.
ellipse2Poly(cx, cy, a, b, angle, delta) ==
    <<>> \o [i \in 1 .. (360 \div delta + 1) |->
                PolyPoint(cx, cy, a, b, angle, Min((i - 1) * delta, 360))]

RECURSIVE DropRepeats(_, _)
DropRepeats(pts, i) ==
    IF i > Len(pts) THEN <<>>
    ELSE (IF i > 1 /\ pts[i] = pts[i - 1] THEN <<>> ELSE <<pts[i]>>)
             \o DropRepeats(pts, i + 1)

\* C's integer division (towards zero), d > 0.
TruncDiv(n, d) == IF n >= 0 THEN n \div d ELSE -((-n) \div d)

\* (n << XY_SHIFT) / d in C, d > 0, taken eight bits at a time to stay within
\* 32 bits.
ShiftDiv(n, d) ==
    LET m == Abs(n)
        v == 256 * ((256 * m) \div d) + (256 * ((256 * m) % d)) \div d
    IN  IF n >= 0 THEN v ELSE -v

\* Line2(img, pt1, pt2, color): the pixels of the line between two fixed-point
\* points, one per column (or per row, for a steep line), and pt2's pixel.
Line2(pt1, pt2) ==
    LET dx == pt2[1] - pt1[1]
        dy == pt2[2] - pt1[2]
        ax == Abs(dx)
        ay == Abs(dy)
        flat == ax > ay
        swap == IF flat THEN dx < 0 ELSE dy < 0
        p == IF swap THEN pt2 ELSE pt1
        q == IF swap THEN pt1 ELSE pt2
        along == IF flat THEN ax ELSE ay
        across == IF flat THEN (IF swap THEN -dy ELSE dy)
                  ELSE (IF swap THEN -dx ELSE dx)
        step == ShiftDiv(across, IF along % 2 = 1 THEN along ELSE along + 1)
        ecount == IF flat THEN (q[1] - p[1]) \div XY_ONE
                  ELSE (q[2] - p[2]) \div XY_ONE
        x0 == p[1] + XY_HALF
        y0 == p[2] + XY_HALF
    IN  {<<(q[1] + XY_HALF) \div XY_ONE, (q[2] + XY_HALF) \div XY_ONE>>}
          \cup (IF flat
                THEN {<<x0 \div XY_ONE + k, (y0 + k * step) \div XY_ONE>> :
                         k \in 0 .. ecount}
                ELSE {<<(x0 + k * step) \div XY_ONE, y0 \div XY_ONE + k>> :
                         k \in 0 .. ecount})

\* FillConvexPoly draws the line from each vertex to the next (the last to
\* the first) ...
PolyLines(v) ==
    UNION {Line2(v[IF i = 1 THEN Len(v) ELSE i - 1], v[i]) : i \in 1 .. Len(v)}

\* ... and scans the rows from the topmost vertex down, between an edge on
\* each side: a side is [idx, di, x, dx, ye], the vertex it runs to, the
\* direction it goes round the polygon, its x in the row, its x step per row
\* and the row it ends in.
EdgeRow(v, i) == (v[i][2] + XY_HALF) \div XY_ONE
Wrap(idx, npts) == IF idx > npts THEN idx - npts ELSE idx

\* "for (; edges-- > 0; )": from the side's vertex on, the first vertex that
\* lies below row y, with the edges left to visit.
RECURSIVE NextEdge(_, _, _, _, _, _)
NextEdge(v, y, idx0, idx, di, edges) ==
    IF edges <= 0 THEN [found |-> FALSE, edges |-> edges - 1]
    ELSE CHOOSE r \in
           {IF ty > y
            THEN [found |-> TRUE, edges |-> edges - 1, idx |-> idx, ye |-> ty,
                  x |-> v[idx0][1],
                  dx |-> TruncDiv((v[idx][1] - v[idx0][1]) * 2 + (ty - y),
                                  2 * (ty - y))]
            ELSE NextEdge(v, y, idx, nxt, di, edges - 1) :
               ty \in {EdgeRow(v, idx)}, nxt \in {Wrap(idx + di, Len(v))}} : TRUE

\* "if (y >= edge[i].ye)": the side e in row y, and the edges left.
SideAt(v, y, e, edges) ==
    IF y < e.ye THEN [e |-> e, edges |-> edges]
    ELSE CHOOSE r \in
           {[e |-> IF n.found
                   THEN [idx |-> n.idx, di |-> e.di, x |-> n.x, dx |-> n.dx,
                         ye |-> n.ye]
                   ELSE e,
             edges |-> n.edges] :
               n \in {NextEdge(v, y, e.idx, Wrap(e.idx + e.di, Len(v)), e.di,
                               edges)}} : TRUE

\* The run filled in a row between the two sides.
HLine(e1, e2) ==
    <<(Min(e1.x, e2.x) + XY_HALF) \div XY_ONE,
      (Max(e1.x, e2.x) + XY_HALF) \div XY_ONE>>

Slide(e) == [e EXCEPT !.x = e.x + e.dx]

\* One pass of the scan loop: st is [y, edges, e1, e2, runs, done], runs the
\* runs filled in rows ymin, ymin + 1, ...
ScanRow(v, ymax, st) ==
    IF st.done THEN st
    ELSE CHOOSE r \in UNION
           {{IF s2.edges < 0 THEN [st EXCEPT !.done = TRUE]
             ELSE [y |-> st.y + 1, edges |-> s2.edges,
                   e1 |-> Slide(s1.e), e2 |-> Slide(s2.e),
                   runs |-> Append(st.runs, HLine(s1.e, s2.e)),
                   done |-> st.y + 1 > ymax] :
                s2 \in {SideAt(v, st.y, st.e2, s1.edges)}} :
              s1 \in {SideAt(v, st.y, st.e1, st.edges)}} : TRUE

\* 2^level passes of the scan loop.
RECURSIVE ScanRows(_, _, _, _)
ScanRows(v, ymax, st, level) ==
    IF st.done THEN st
    ELSE IF level = 0 THEN ScanRow(v, ymax, st)
    ELSE CHOOSE r \in {ScanRows(v, ymax, half, level - 1) :
                          half \in {ScanRows(v, ymax, st, level - 1)}} : TRUE

\* The runs FillConvexPoly fills, from row ymin on.
ScanRuns(v) ==
    LET ys == {v[i][2] : i \in 1 .. Len(v)}
        imin == MinOf({i \in 1 .. Len(v) : v[i][2] = MinOf(ys)})
        ymin == (MinOf(ys) + XY_HALF) \div XY_ONE
        ymax == (MaxOf(ys) + XY_HALF) \div XY_ONE
        side(di) == [idx |-> imin, di |-> di, x |-> -XY_ONE, dx |-> 0, ye |-> ymin]
    IN  [ymin |-> ymin,
         runs |-> ScanRows(v, ymax,
                           [y |-> ymin, edges |-> Len(v), e1 |-> side(1),
                            e2 |-> side(Len(v) - 1), runs |-> <<>>,
                            done |-> FALSE],
                           BitLength(ymax - ymin + 1)).runs]

\* The ends of the run filled in row y, if one was.
FillEnds(scan, y) ==
    IF y - scan.ymin + 1 \in 1 .. Len(scan.runs)
    THEN {scan.runs[y - scan.ymin + 1][1], scan.runs[y - scan.ymin + 1][2]}
    ELSE {}

\* The first and last pixel set in row y.
RowRun(lines, scan, y) ==
    CHOOSE run \in {<<MinOf(xs), MaxOf(xs)>> :
                       xs \in {{xy[1] : xy \in {l \in lines : l[2] = y}}
                                  \cup FillEnds(scan, y)}} : TRUE

\* FillConvexPoly(img, v, color): the pixels set, row by row, as [top, rows]:
\* rows[i] is the run <<first, last>> of pixels set in row top + i - 1 (the
\* lines and the run of a row make one run: the polygon is convex).
FillConvexPoly(v) ==
    CHOOSE r \in
      {[top |-> MinOf(ys),
        rows |-> <<>> \o [i \in 1 .. (MaxOf(ys) - MinOf(ys) + 1) |->
                            RowRun(lines, scan, MinOf(ys) + i - 1)]] :
         lines \in {PolyLines(v)}, scan \in {ScanRuns(v)},
         ys \in {{(v[i][2] + XY_HALF) \div XY_ONE : i \in 1 .. Len(v)}}} : TRUE

\* cv2.ellipse(mask, (cx, cy), (a, b), angle, 0, 360, color, -1) on a mask the
\* ellipse lies within: the pixels it sets.
EllipseBlob(cx, cy, a, b, angle, color) ==
    CHOOSE r \in
      {[shape |-> "ellipse", p |-> <<cx, cy, a, b, angle>>, value |-> color,
        top |-> f.top, rows |-> f.rows] :
         f \in {FillConvexPoly(DropRepeats(
                   ellipse2Poly(cx, cy, a, b, angle, EllipseDelta(Max(a, b))), 1))}} :
      TRUE

\* Pixel (x, y) is one of the blob's.
InBlob(blob, x, y) ==
    /\ y >= blob.top
    /\ y < blob.top + Len(blob.rows)
    /\ blob.rows[y - blob.top + 1][1] <= x
    /\ x <= blob.rows[y - blob.top + 1][2]

\* A box <<x0, y0, x1, y1>> that holds the blob.
BoxOf(blob) ==
    IF blob.shape = "rect" THEN blob.p
    ELSE <<blob.p[1] - blob.p[3], blob.p[2] - blob.p[3],
           blob.p[1] + blob.p[3], blob.p[2] + blob.p[3]>>

\* The pixels of a blob and their number.
Pixels(blob) ==
    {xy \in (BoxOf(blob)[1] .. BoxOf(blob)[3]) \X (BoxOf(blob)[2] .. BoxOf(blob)[4]) :
        InBlob(blob, xy[1], xy[2])}

PixelCount(blob) == Cardinality(Pixels(blob))

\* np.zeros(image_shape[:2], dtype=np.uint8)
ZeroMask(h, w) ==
    [height |-> h, width |-> w, background |-> BACKGROUND, blobs |-> {}]

\* The pixel values a mask holds.
MaskValues(mask) ==
    (IF mask.height * mask.width > 0 THEN {mask.background} ELSE {})
        \cup {b.value : b \in mask.blobs}

\* ------------------------------------------------------ cv2, contours
\* Two blobs whose pixels overlap or are 8-neighbours belong to one region.
\* A pixel of the blob.
Anchor(blob) == <<blob.p[1], blob.p[2]>>

Touches(a, b) ==
    \/ InBlob(b, Anchor(a)[1], Anchor(a)[2])
    \/ InBlob(a, Anchor(b)[1], Anchor(b)[2])
    \/ \E x \in Max(BoxOf(a)[1] - 1, BoxOf(b)[1]) .. Min(BoxOf(a)[3] + 1, BoxOf(b)[3]),
          y \in Max(BoxOf(a)[2] - 1, BoxOf(b)[2]) .. Min(BoxOf(a)[4] + 1, BoxOf(b)[4]) :
           /\ InBlob(b, x, y)
           /\ \E dx \in -1 .. 1, dy \in -1 .. 1 : InBlob(a, x + dx, y + dy)

\* The blobs of S connected to those of C.
RECURSIVE Component(_, _)
Component(C, S) ==
    CHOOSE r \in {IF N = {} THEN C ELSE Component(C \cup N, S) :
                     N \in {{b \in S \ C : \E c \in C : Touches(c, b)}}} : TRUE

\* The connected foreground regions, each as the set of blobs that make it.
RECURSIVE Regions(_)
Regions(S) ==
    IF S = {} THEN {}
    ELSE CHOOSE r \in {{C} \cup Regions(S \ C) :
                          C \in {Component({CHOOSE b \in S : TRUE}, S)}} : TRUE

InRegion(R, xy) == \E b \in R : InBlob(b, xy[1], xy[2])

\* The first pixel of region R a raster scan meets: its row, and its column
\* in that row.
RECURSIVE FirstRowFrom(_, _)
FirstRowFrom(R, y) ==
    IF \E b \in R : \E x \in BoxOf(b)[1] .. BoxOf(b)[3] : InBlob(b, x, y)
    THEN y ELSE FirstRowFrom(R, y + 1)

TopRow(R) ==
    FirstRowFrom(R, CHOOSE y \in {BoxOf(b)[2] : b \in R} :
                        \A z \in {BoxOf(b)[2] : b \in R} : y <= z)

\* The first column of R in row y.
FirstColIn(R, y) ==
    CHOOSE x \in UNION {BoxOf(b)[1] .. BoxOf(b)[3] : b \in R} :
        /\ InRegion(R, <<x, y>>)
        /\ \A z \in UNION {BoxOf(b)[1] .. BoxOf(b)[3] : b \in R} :
               z < x => ~InRegion(R, <<z, y>>)

LeftCol(R) == CHOOSE x \in {FirstColIn(R, y) : y \in {TopRow(R)}} : TRUE

\* The eight neighbours of a pixel, clockwise from east (y grows downwards).
Dirs ==
    <<<<1, 0>>, <<1, 1>>, <<0, 1>>, <<-1, 1>>,
      <<-1, 0>>, <<-1, -1>>, <<0, -1>>, <<1, -1>>>>

Neighbour(xy, d) == <<xy[1] + Dirs[d + 1][1], xy[2] + Dirs[d + 1][2]>>

\* The first direction, clockwise after direction back, in which pixel xy has
\* a neighbour in R; 8 when it has none.
RECURSIVE NextDir(_, _, _, _)
NextDir(R, xy, back, k) ==
    IF k > 8 THEN 8
    ELSE IF InRegion(R, Neighbour(xy, (back + k) % 8)) THEN (back + k) % 8
    ELSE NextDir(R, xy, back, k + 1)

\* Border following.  A walk along the outer border of R from pixel start is
\*   xy, back   the pixel reached and the direction of the background pixel
\*              looked at last
\*   second     the pixel after start
\*   n          the moves made
\*   a2, sx, sy Green's formula over the moves made, the coordinates taken
\*              from start: a2 is twice the signed area, sx / (3 * a2) and
\*              sy / (3 * a2) the offsets of the centroid from start
\*   closed     the walk is back at start, about to repeat its first move
WalkFrom(start) ==
    [xy |-> start, back |-> 4, second |-> start, n |-> 0,
     a2 |-> 0, sx |-> 0, sy |-> 0, closed |-> FALSE]

MoveTo(start, w, d) ==
    LET next == Neighbour(w.xy, d)
        px == w.xy[1] - start[1]
        py == w.xy[2] - start[2]
        qx == next[1] - start[1]
        qy == next[2] - start[2]
        cross == px * qy - qx * py
    IN  IF d = 8 \/ (w.n > 0 /\ w.xy = start /\ next = w.second)
        THEN [w EXCEPT !.closed = TRUE]
        ELSE [xy |-> next,
              back |-> (IF d % 2 = 0 THEN d + 6 ELSE d + 5) % 8,
              second |-> IF w.n = 0 THEN next ELSE w.second,
              n |-> w.n + 1,
              a2 |-> w.a2 + cross,
              sx |-> w.sx + (px + qx) * cross,
              sy |-> w.sy + (py + qy) * cross,
              closed |-> FALSE]

BorderMove(R, start, w) ==
    IF w.closed THEN w
    ELSE CHOOSE r \in {MoveTo(start, w, d) :
                          d \in {NextDir(R, w.xy, w.back, 1)}} : TRUE

\* k moves of the walk.
RECURSIVE BorderMoves(_, _, _, _)
BorderMoves(R, start, w, k) ==
    IF k = 0 \/ w.closed THEN w
    ELSE IF k = 1 THEN BorderMove(R, start, w)
    ELSE CHOOSE r \in UNION {{BorderMoves(R, start, half, k - i) :
                                 half \in {BorderMoves(R, start, w, i)}} :
                             i \in {k \div 2}} : TRUE

\* No border is longer: a border pixel of R is a border pixel of one of its
\* blobs, passed at most twice.
MaxBorder(R) ==
    4 * Cardinality(R) *
        (CHOOSE m \in {(BoxOf(b)[3] - BoxOf(b)[1]) + (BoxOf(b)[4] - BoxOf(b)[2]) + 2 : b \in R} :
            \A b \in R : m >= (BoxOf(b)[3] - BoxOf(b)[1]) + (BoxOf(b)[4] - BoxOf(b)[2]) + 2)

\* The contour of region R: the closed polygon through the centres of its
\* border pixels, from the first pixel the scan meets (start); n is the
\* number of its points.  (CHAIN_APPROX_SIMPLE drops the points inside
\* straight runs; the polygon is the same.)
ContourFrom(R, start) ==
    CHOOSE r \in {[start |-> start, n |-> IF w.n = 0 THEN 1 ELSE w.n,
                   a2 |-> w.a2, sx |-> w.sx, sy |-> w.sy, region |-> R] :
                     w \in {BorderMoves(R, start, WalkFrom(start),
                                        MaxBorder(R) + 1)}} : TRUE

Contour(R) ==
    CHOOSE r \in {ContourFrom(R, <<FirstColIn(R, y), y>>) :
                     y \in {TopRow(R)}} : TRUE

\* RETR_EXTERNAL: a region has a contour when the background next to its
\* outer border is the background around the image, none when the region lies
\* in a hole of another region.  Foreground pixels are 8-connected, background
\* pixels 4-connected.
\* Pixel xy of the background of S has a straight run of background to its
\* left, to its right, above it or below it that leaves every blob behind.
Open(S, xy) ==
    \/ \A b \in S : \A x \in BoxOf(b)[1] .. (xy[1] - 1) : ~InBlob(b, x, xy[2])
    \/ \A b \in S : \A x \in (xy[1] + 1) .. BoxOf(b)[3] : ~InBlob(b, x, xy[2])
    \/ \A b \in S : \A y \in BoxOf(b)[2] .. (xy[2] - 1) : ~InBlob(b, xy[1], y)
    \/ \A b \in S : \A y \in (xy[2] + 1) .. BoxOf(b)[4] : ~InBlob(b, xy[1], y)

\* The background pixels next to those of front, seen ones left out.
Spread(S, seen, front) ==
    {xy \in {Neighbour(f, d) : f \in front, d \in {0, 2, 4, 6}} \ seen :
        ~InRegion(S, xy)}

\* The background that holds the pixels of front reaches the outside of the
\* image.
RECURSIVE ReachesFrame(_, _, _)
ReachesFrame(S, seen, front) ==
    IF front = {} THEN FALSE
    ELSE IF \E xy \in front : Open(S, xy) THEN TRUE
    ELSE CHOOSE r \in {ReachesFrame(S, seen \cup next, next) :
                          next \in {Spread(S, seen, front)}} : TRUE

\* The contour is an outermost one: the pixel to the left of its start pixel
\* is background next to its border.
IsExternal(S, c) ==
    ReachesFrame(S, {<<c.start[1] - 1, c.start[2]>>},
                 {<<c.start[1] - 1, c.start[2]>>})

\* The contours RETR_EXTERNAL retrieves from the foreground blobs S.
ExternalContours(S) ==
    {c \in {Contour(R) : R \in Regions(S)} : IsExternal(S, c)}

\* cv2.findContours(mask, RETR_EXTERNAL, CHAIN_APPROX_SIMPLE): the outer
\* contour of every connected foreground region that lies in no hole of
\* another, the region met last by the raster scan first.  The mask is read,
\* not written (OpenCV >= 3.2).
ScanBefore(b, c) ==
    \/ b.start[2] > c.start[2]
    \/ b.start[2] = c.start[2] /\ b.start[1] >= c.start[1]

RECURSIVE ContourSeq(_)
ContourSeq(S) ==
    IF S = {} THEN <<>>
    ELSE LET b == CHOOSE b \in S : \A c \in S : ScanBefore(b, c)
         IN  <<b>> \o ContourSeq(S \ {b})

\* (Faulty variant: regions of a single pixel are dropped.)
FindContoursMinArea(mask) ==
    CHOOSE r \in {ContourSeq({c \in S : c.n > 1}) :
                     S \in {ExternalContours({b \in mask.blobs : b.value # 0})}} : TRUE
findContours(mask) ==
    CHOOSE r \in {ContourSeq(S) :
                     S \in {ExternalContours({b \in mask.blobs : b.value # 0})}} : TRUE

\* cv2.contourArea(contour), doubled (a polygon on integer points has an area
\* that is a multiple of 1/2).
contourArea2(c) == Abs(c.a2)

\* cv2.moments(contour), each moment times 6: m00 is the polygon's area, and
\* m10/m00, m01/m00 its centroid.
moments6(c) ==
    LET sign == IF c.a2 >= 0 THEN 1 ELSE -1
    IN  [m00 |-> 3 * Abs(c.a2),
         m10 |-> 3 * Abs(c.a2) * c.start[1] + sign * c.sx,
         m01 |-> 3 * Abs(c.a2) * c.start[2] + sign * c.sy]

\* max(contours, key=cv2.contourArea): the first contour of greatest key.
RECURSIVE MaxByFrom(_, _, _)
MaxByFrom(contours, i, best) ==
    IF i > Len(contours) THEN best
    ELSE MaxByFrom(contours, i + 1,
                   IF contourArea2(contours[i]) > contourArea2(contours[best])
                   THEN i ELSE best)

\* (Faulty variant: contours[0] is taken as the primary.)
FirstContour(contours) == 1
LargestContourIndex(contours) == MaxByFrom(contours, 2, 1)

\* ----------------------------------------------- analyze_segmentation
NotDetectedResult ==
    [stone_detected |-> FALSE, size_pixels |-> 0, location |-> "None",
     confidence |-> 0]

\* if cy < height / 3 ... elif cy < 2 * height / 3 ... else (true division:
\* cy < height / 3 iff 3 * cy < height).
\* (Faulty variant: <= in place of < in the first comparison.)
LocationLeq(cy, height) ==
    IF 3 * cy <= height THEN "Upper Pole"
    ELSE IF 3 * cy < 2 * height THEN "Mid-Kidney"
    ELSE "Lower Pole"
Location(cy, height) ==
    IF 3 * cy < height THEN "Upper Pole"
    ELSE IF 3 * cy < 2 * height THEN "Mid-Kidney"
    ELSE "Lower Pole"

\* The centroid: int(M["m10"] / M["m00"]), int(M["m01"] / M["m00"]), or (0, 0)
\* when m00 is zero.
Centroid(M) ==
    IF M.m00 # 0 THEN <<M.m10 \div M.m00, M.m01 \div M.m00>> ELSE <<0, 0>>

\* The dictionary analyze_segmentation returns for a mask with contours, the
\* confidence drawn on generator state s.
DetectedResult(mask, contours, s) ==
    LET largest_contour == contours[LargestContourIndex(contours)]
        area2 == contourArea2(largest_contour)
        c == Centroid(moments6(largest_contour))
    IN  [stone_detected |-> TRUE,
         size_pixels |-> area2 \div 2,
         location |-> Location(c[2], mask.height),
         confidence |-> uniform_confidence(s),
         center |-> c]

\* analyze_segmentation(mask) on generator state s: the result and the
\* generator state after it (one draw, made only when a stone is detected).
analyze_segmentation(mask, s) ==
    CHOOSE r \in {IF contours = <<>>
                  THEN [result |-> NotDetectedResult, rng |-> s]
                  ELSE [result |-> DetectedResult(mask, contours, s),
                        rng |-> RngStep(s)] :
                     contours \in {findContours(mask)}} : TRUE

\* ------------------------------------------------------------- images
\* A PIL image or numpy array: shape, element type, the pixel content it was
\* loaded with and the drawing operations applied since.
Image(h, w, channels, src) ==
    [height |-> h, width |-> w, channels |-> channels, dtype |-> "uint8",
     src |-> src, ops |-> <<>>]

\* A drawing operation on an array.
DrawOp(name, arg) == [op |-> name, arg |-> arg]

\* The heap of arrays of one request: buffer id -> array.  Allocation appends.
NoBuffer == 0
Alloc(heap, img) == [heap |-> Append(heap, img), id |-> Len(heap) + 1]

\* An in-place drawing call on buffer id.
DrawOn(heap, id, op) ==
    [heap EXCEPT ![id] = [@ EXCEPT !.ops = Append(@, op)]]

\* original_image.copy(): a new array with the same pixels.
\* (Faulty variant: no copy is made, the same array is used.)
AliasBuffer(heap, id) == [heap |-> heap, id |-> id]
CopyBuffer(heap, id) == Alloc(heap, heap[id])

\* cv2.cvtColor(original_image, cv2.COLOR_GRAY2RGB): a new 3-channel array.
CvtColorGray2Rgb(heap, id) == Alloc(heap, [heap[id] EXCEPT !.channels = 3])

\* --------------------------------------------------- preprocess_image
\* np.array(image), then cvtColor (3-dim input) or nothing (2-dim input),
\* cv2.resize to 256x256 and astype(float32) / 255.  cvtColor and resize raise
\* cv2.error on an empty array.  Returns (img_normalized, img_array).
IsEmptyArray(img) == img.height = 0 \/ img.width = 0

Normalized(img) ==
    [img EXCEPT !.height = MODEL_INPUT_SIZE, !.width = MODEL_INPUT_SIZE,
                !.channels = 1, !.dtype = "float32"]

\* ------------------------------------------- create_highlighted_image
\* The body of "for contour in contours", for contours[i..]: st is
\* [heap, highlighted, writes], writes the buffers drawn on in place.
RECURSIVE HighlightContours(_, _, _, _)
HighlightContours(st, contours, i, analysis_result) ==
    IF i > Len(contours) THEN st
    ELSE
      LET contour == contours[i]
          ov == CopyBuffer(st.heap, st.highlighted)
          filled == DrawOn(ov.heap, ov.id, DrawOp("fillPoly", contour.start))
          \* cv2.addWeighted(highlighted, 0.7, overlay, 0.3, 0): a new array
          blended == Alloc(filled,
                           [filled[st.highlighted] EXCEPT
                              !.ops = Append(@, DrawOp("addWeighted", contour.start))])
          outlined == DrawOn(blended.heap, blended.id,
                             DrawOp("drawContours", contour.start))
          w1 == st.writes \o <<ov.id, blended.id>>
          labelled ==
              IF "center" \in DOMAIN analysis_result
              THEN LET cx == analysis_result.center[1]
                       cy == analysis_result.center[2]
                   IN  DrawOn(DrawOn(outlined, blended.id,
                                     DrawOp("arrowedLine",
                                            <<cx + 30, cy - 30, cx, cy>>)),
                              blended.id,
                              DrawOp("putText", <<cx + 35, cy - 35>>))
              ELSE outlined
          w2 == IF "center" \in DOMAIN analysis_result
                THEN w1 \o <<blended.id, blended.id>> ELSE w1
      IN  HighlightContours([heap |-> labelled, highlighted |-> blended.id,
                             writes |-> w2],
                            contours, i + 1, analysis_result)

\* The copy or conversion the drawing starts from.
HighlightedBase(heap, original) ==
    IF heap[original].channels = 3
    THEN CopyBuffer(heap, original)
    ELSE CvtColorGray2Rgb(heap, original)

\* The array base as highlighted, nothing drawn on it yet.
DrawingOn(base) == [heap |-> base.heap, highlighted |-> base.id, writes |-> <<>>]

\* The loop over the contours of the mask, on the array base.
HighlightAll(base, mask, analysis_result) ==
    CHOOSE r \in {HighlightContours(DrawingOn(base), contours, 1, analysis_result) :
                     contours \in {findContours(mask)}} : TRUE

\* create_highlighted_image(original_image, mask, analysis_result), on the
\* heap holding original_image: the heap after, the returned buffer, the
\* in-place writes made and the mask after the call.
\* (Faulty variant: the stone_detected test is missing.)
HighlightAlways(heap, original, mask, analysis_result) ==
    CHOOSE r \in {[heap |-> st.heap, highlighted |-> st.highlighted,
                   writes |-> st.writes, mask |-> mask] :
                     st \in {HighlightAll(HighlightedBase(heap, original),
                                          mask, analysis_result)}} : TRUE
create_highlighted_image(heap, original, mask, analysis_result) ==
    CHOOSE r \in {[heap |-> st.heap, highlighted |-> st.highlighted,
                   writes |-> st.writes, mask |-> mask] :
                     st \in {IF analysis_result.stone_detected
                             THEN HighlightAll(HighlightedBase(heap, original),
                                               mask, analysis_result)
                             ELSE DrawingOn(HighlightedBase(heap, original))}} : TRUE

\* ------------------------------------------------------------ requests
\* The local state of one call of predict(image): its position, the arrays
\* it holds, the segmenter's locals, and what it returned or raised.
\*   num_left  the iterations of the stone loop still to run
\*   center_x, center_y, radius    the loop body's locals
\*   drawn     the cv2.ellipse calls made on the mask, in order
\*   stages    the pipeline stages entered, in order
\*   analysis, returned, err    empty, or a one-element sequence
\*   rng0      the generator state at the call's first draw
NewRequest(image, pc) ==
    [pc |-> pc, image |-> image, rng0 |-> 0,
     heap |-> <<>>, original |-> NoBuffer, normalized |-> NoBuffer,
     mask |-> ZeroMask(0, 0), num_left |-> 0,
     center_x |-> 0, center_y |-> 0, radius |-> 0, drawn |-> <<>>,
     analysis |-> <<>>, highlighted |-> NoBuffer, writes |-> <<>>,
     returned |-> <<>>, err |-> <<>>, stages |-> <<>>]

\* An exception leaving a stage: control passes to predict's except clause.
Raise(q, kind, stage) ==
    [q EXCEPT !.pc = "except", !.err = <<[kind |-> kind, stage |-> stage]>>]

Enter(q, stage) == [q EXCEPT !.stages = Append(@, stage)]

\* preprocessed, original_array = self.preprocess_image(image)
preprocess_image(q0, s) ==
    LET q == Enter(q0, "preprocess_image")
    IN  IF IsEmptyArray(q.image)
        THEN [req |-> Raise(q, "cv2.error", "preprocess_image"), rng |-> s]
        ELSE [req |-> [q EXCEPT !.pc = "generate_mock_segmentation",
                                !.heap = <<q.image, Normalized(q.image)>>,
                                !.original = 1, !.normalized = 2],
              rng |-> s]

\* generate_mock_segmentation, to its first draw: mask = np.zeros(...), then
\* "if random.random() < 0.7".
SegmentBegin(q0, s) ==
    LET q == [Enter(q0, "generate_mock_segmentation") EXCEPT !.rng0 = s]
        shape == q.heap[q.original]
        m == ZeroMask(shape.height, shape.width)
    IN  [req |-> [q EXCEPT !.mask = m,
                           !.pc = IF RandomBelowStoneProbability(s)
                                  THEN "num_stones" ELSE "analyze_segmentation"],
         rng |-> RngStep(s)]

\* A call of random.randint in the segmenter is made attempt by attempt:
\* a rejected attempt leaves the call where it is, the generator advanced.
\* num_stones = random.randint(1, 3)
SegmentNumStones(q, s) ==
    LET t == randint_attempt(MIN_STONES, MAX_STONES, s)
    IN  [req |-> IF t.accepted
                 THEN [q EXCEPT !.num_left = t.value, !.pc = "center_x"]
                 ELSE q,
         rng |-> RngStep(s)]

\* The body of "for _ in range(num_stones)".  randint raises ValueError when
\* its range is empty.
\*   center_x = random.randint(50, image_shape[1] - 50)
SegmentCenterX(q, s) ==
    IF q.mask.width - BORDER_MARGIN < BORDER_MARGIN
    THEN [req |-> Raise(q, "ValueError", "generate_mock_segmentation"), rng |-> s]
    ELSE LET t == randint_attempt(BORDER_MARGIN, q.mask.width - BORDER_MARGIN, s)
         IN  [req |-> IF t.accepted
                      THEN [q EXCEPT !.center_x = t.value, !.pc = "center_y"]
                      ELSE q,
              rng |-> RngStep(s)]

\*   center_y = random.randint(50, image_shape[0] - 50)
SegmentCenterY(q, s) ==
    IF q.mask.height - BORDER_MARGIN < BORDER_MARGIN
    THEN [req |-> Raise(q, "ValueError", "generate_mock_segmentation"), rng |-> s]
    ELSE LET t == randint_attempt(BORDER_MARGIN, q.mask.height - BORDER_MARGIN, s)
         IN  [req |-> IF t.accepted
                      THEN [q EXCEPT !.center_y = t.value, !.pc = "radius"]
                      ELSE q,
              rng |-> RngStep(s)]

\*   radius = random.randint(8, 25)
SegmentRadius(q, s) ==
    LET t == randint_attempt(MIN_RADIUS, MAX_RADIUS, s)
    IN  [req |-> IF t.accepted
                 THEN [q EXCEPT !.radius = t.value, !.pc = "angle"]
                 ELSE q,
         rng |-> RngStep(s)]

\*   cv2.ellipse(mask, (center_x, center_y), (radius, int(radius * 0.8)),
\*               random.randint(0, 180), 0, 360, 255, -1)
StoneAt(cx, cy, radius, angle) ==
    EllipseBlob(cx, cy, radius, (4 * radius) \div 5, angle, FOREGROUND)

SegmentEllipse(q, s) ==
    IF randint_attempt(0, MAX_ANGLE, s).accepted
    THEN CHOOSE r \in
           {[req |-> [q EXCEPT !.mask = [@ EXCEPT !.blobs = @ \cup {blob}],
                               !.drawn = Append(@, blob),
                               !.num_left = @ - 1,
                               !.pc = IF q.num_left > 1
                                      THEN "center_x" ELSE "analyze_segmentation"],
             rng |-> RngStep(s)] :
              blob \in {StoneAt(q.center_x, q.center_y, q.radius,
                                randint_attempt(0, MAX_ANGLE, s).value)}} : TRUE
    ELSE [req |-> q, rng |-> RngStep(s)]

\* analysis = self.analyze_segmentation(mask)
\* (Faulty variant: the M["m00"] != 0 test is missing, so the division raises
\* on a degenerate region.)
AnalyzeUnguarded(q0, s) ==
    LET q == Enter(q0, "analyze_segmentation")
        contours == findContours(q.mask)
        a == analyze_segmentation(q.mask, s)
    IN  IF contours # <<>>
           /\ moments6(contours[LargestContourIndex(contours)]).m00 = 0
        THEN [req |-> Raise(q, "ZeroDivisionError", "analyze_segmentation"),
              rng |-> s]
        ELSE [req |-> [q EXCEPT !.analysis = <<a.result>>,
                                !.pc = "create_highlighted_image"],
              rng |-> a.rng]
Analyze(q0, s) ==
    CHOOSE r \in {[req |-> [Enter(q0, "analyze_segmentation") EXCEPT
                               !.analysis = <<a.result>>,
                               !.pc = "create_highlighted_image"],
                   rng |-> a.rng] :
                     a \in {analyze_segmentation(q0.mask, s)}} : TRUE

\* highlighted_image = self.create_highlighted_image(original_array, mask,
\* analysis); return analysis, highlighted_image
Annotate(q0, s) ==
    CHOOSE r \in {[req |-> [Enter(q0, "create_highlighted_image") EXCEPT
                               !.heap = h.heap, !.mask = h.mask,
                               !.highlighted = h.highlighted, !.writes = h.writes,
                               !.returned = <<[analysis |-> q0.analysis[1],
                                               highlighted_image |-> h.heap[h.highlighted]]>>,
                               !.pc = "done"],
                   rng |-> s] :
                     h \in {create_highlighted_image(q0.heap, q0.original, q0.mask,
                                                     q0.analysis[1])}} : TRUE

\* except Exception as e: logger.error(...); raise
ExceptReraise(q, s) == [req |-> [q EXCEPT !.pc = "raised"], rng |-> s]

Finished(q) == q.pc \in {"done", "raised"}

\* One step of predict, by position.
predict_step(q, s) ==
    CASE q.pc = "preprocess_image" -> preprocess_image(q, s)
      [] q.pc = "generate_mock_segmentation" -> SegmentBegin(q, s)
      [] q.pc = "num_stones" -> SegmentNumStones(q, s)
      [] q.pc = "center_x" -> SegmentCenterX(q, s)
      [] q.pc = "center_y" -> SegmentCenterY(q, s)
      [] q.pc = "radius" -> SegmentRadius(q, s)
      [] q.pc = "angle" -> SegmentEllipse(q, s)
      [] q.pc = "analyze_segmentation" -> Analyze(q, s)
      [] q.pc = "create_highlighted_image" -> Annotate(q, s)
      [] q.pc = "except" -> ExceptReraise(q, s)

\* predict(image) run to its end with a generator of its own in state s.
RECURSIVE predict(_, _)
predict(q, s) ==
    IF Finished(q) THEN q
    ELSE LET o == predict_step(q, s) IN predict(o.req, o.rng)

\* What the caller of predict sees: the returned pair or the exception.
Outcome(q) == [returned |-> q.returned, err |-> q.err]

\* ------------------------------------------------------ state machine
\* req: the calls of predict in progress (Flask serves requests on threads
\* that share the module-level detector and the random module).
\* rng: the state of the random module's generator, shared by all calls.
VARIABLES req, rng
vars == <<req, rng>>

Apply(r, o) ==
    \E done \in {o} : req' = [req EXCEPT ![r] = done.req] /\ rng' = done.rng

PreprocessStep(r) ==
    req[r].pc = "preprocess_image" /\ Apply(r, preprocess_image(req[r], rng))
SegmentBeginStep(r) ==
    req[r].pc = "generate_mock_segmentation" /\ Apply(r, SegmentBegin(req[r], rng))
NumStonesStep(r) ==
    req[r].pc = "num_stones" /\ Apply(r, SegmentNumStones(req[r], rng))
CenterXStep(r) ==
    req[r].pc = "center_x" /\ Apply(r, SegmentCenterX(req[r], rng))
CenterYStep(r) ==
    req[r].pc = "center_y" /\ Apply(r, SegmentCenterY(req[r], rng))
RadiusStep(r) ==
    req[r].pc = "radius" /\ Apply(r, SegmentRadius(req[r], rng))
EllipseStep(r) ==
    req[r].pc = "angle" /\ Apply(r, SegmentEllipse(req[r], rng))
AnalyzeStep(r) ==
    req[r].pc = "analyze_segmentation" /\ Apply(r, Analyze(req[r], rng))
AnnotateStep(r) ==
    req[r].pc = "create_highlighted_image" /\ Apply(r, Annotate(req[r], rng))
ExceptStep(r) ==
    req[r].pc = "except" /\ Apply(r, ExceptReraise(req[r], rng))

\* --- the pipeline: concurrent calls of predict on uploaded images
\* The images submitted: empty, smaller than the segmenter's margins, exactly
\* at them, and larger; RGB (as the route converts uploads) or single-channel.
PipelineImages ==
    {Image(0, 120, 3, "upload"), Image(60, 0, 3, "upload"),
     Image(60, 0, 1, "upload"), Image(60, 120, 3, "upload"),
     Image(100, 100, 1, "upload"), Image(120, 300, 3, "upload")}

\* The images a second, concurrent call is made on: the two on which predict
\* ends early.
ConcurrentImages ==
    {Image(0, 120, 3, "upload"), Image(60, 120, 3, "upload")}

\* The generator states the runs start in: between them the runs draw one
\* stone, two stones that overlap, two stones apart and none, and reach the
\* angle 180.
PipelineSeeds == {49, 71, 103, 228}

Init ==
    /\ \E a \in PipelineImages, b \in ConcurrentImages :
          req = [r \in Requests |->
                    NewRequest(IF r = 1 THEN a ELSE b, "preprocess_image")]
    /\ rng \in PipelineSeeds

Next ==
    \E r \in Requests :
        \/ PreprocessStep(r)
        \/ SegmentBeginStep(r)
        \/ NumStonesStep(r)
        \/ CenterXStep(r)
        \/ CenterYStep(r)
        \/ RadiusStep(r)
        \/ EllipseStep(r)
        \/ AnalyzeStep(r)
        \/ AnnotateStep(r)
        \/ ExceptStep(r)

Spec == Init /\ [][Next]_vars

\* --- the stages called directly: analyze_segmentation and
\* create_highlighted_image on injected masks and analysis results
Separated(a, b) ==
    \/ a.p[3] + 1 < b.p[1] \/ b.p[3] + 1 < a.p[1]
    \/ a.p[4] + 1 < b.p[2] \/ b.p[4] + 1 < a.p[2]

\* The blocks of pixels of an h x w mask.
RectsIn(h, w) ==
    UNION {{RectBlob(x0, y0, x1, y1) : x1 \in x0 .. (w - 1), y1 \in y0 .. (h - 1)} :
              x0 \in 0 .. (w - 1), y0 \in 0 .. (h - 1)}

\* Analysis results handed to create_highlighted_image directly.
AnalysisInputs ==
    {NotDetectedResult,
     [stone_detected |-> TRUE, size_pixels |-> 1, location |-> "Upper Pole",
      confidence |-> uniform_confidence(0), center |-> <<1, 0>>],
     [stone_detected |-> TRUE, size_pixels |-> 1, location |-> "Upper Pole",
      confidence |-> uniform_confidence(0)]}

\* A call that starts at a stage: the arrays as preprocess_image leaves them,
\* and the mask (and analysis result) handed in.
StageRequest(image, mask, pc, analysis) ==
    [NewRequest(image, pc) EXCEPT
        !.heap = <<image, Normalized(image)>>, !.original = 1, !.normalized = 2,
        !.mask = mask, !.analysis = analysis]

\* analyze_segmentation on a mask, or create_highlighted_image on a mask and
\* an analysis result.
StageCalls(image, mask) ==
    {StageRequest(image, mask, "analyze_segmentation", <<>>)}
        \cup {StageRequest(image, mask, "create_highlighted_image", <<a>>) :
                 a \in AnalysisInputs}

\* The generator states a direct call of analyze_segmentation starts from: the
\* two ends of the range of random.uniform.
Seeds == {0, RngMod - 1}

\* Masks of up to two blocks that do not touch (each is one region), on
\* 1-channel and 3-channel images of the mask's size.
InitStages ==
    /\ \E h \in 1 .. MaxH, w \in 1 .. MaxW, ch \in {1, 3} :
       \E n \in 0 .. (IF h <= MaxPairH THEN 2 ELSE 1) :
       \E a \in (IF n = 0 THEN {RectBlob(0, 0, 0, 0)} ELSE RectsIn(h, w)) :
       \E b \in (IF n = 2 THEN {c \in RectsIn(h, w) : Separated(a, c)} ELSE {a}) :
       \E q \in StageCalls(Image(h, w, ch, "scan"),
                            [ZeroMask(h, w) EXCEPT
                                !.blobs = IF n = 0 THEN {} ELSE {a, b}]) :
          req = [r \in Requests |->
                    IF r = 1 THEN q ELSE NewRequest(q.image, "idle")]
    /\ rng \in (IF req[1].pc = "analyze_segmentation" THEN Seeds ELSE {0})

NextStages == AnalyzeStep(1) \/ AnnotateStep(1)

SpecStages == InitStages /\ [][NextStages]_vars

\* ============================================================== claims
HasRun(q, stage) == \E i \in 1 .. Len(q.stages) : q.stages[i] = stage

\* analyze_segmentation has run on q.mask and q.analysis[1] is what it
\* returned.
Analyzed(q) == HasRun(q, "analyze_segmentation")

Locations == {"Upper Pole", "Mid-Kidney", "Lower Pole", "None"}

\* C1: every result analyze_segmentation returns satisfies the AnalysisResult
\* invariant: location is one of the four names, size_pixels is a non-negative
\* integer, confidence lies in [0, 1]; a result that is not detected has
\* size_pixels 0, location "None", confidence 0.0 and no center; and center is
\* present iff stone_detected.
C1_ResultInvariant ==
    \A r \in Requests :
        Analyzed(req[r]) =>
            LET a == req[r].analysis[1]
            IN  /\ a.location \in Locations
                /\ a.size_pixels \in Nat
                /\ 0 <= a.confidence /\ a.confidence <= ConfScale
                /\ (~a.stone_detected =>
                        /\ a.size_pixels = 0
                        /\ a.location = "None"
                        /\ a.confidence = 0
                        /\ "center" \notin DOMAIN a)
                /\ ("center" \in DOMAIN a <=> a.stone_detected)

C1_Witness ==
    /\ Analyzed(req[1])
    /\ req[1].analysis[1].stone_detected
    /\ "center" \in DOMAIN req[1].analysis[1]
    /\ req[1].analysis[1].size_pixels > 0
    /\ req[1].analysis[1].confidence > CONF_LOW_PCT * RngMod

\* The mask has a foreground pixel.
HasForeground(mask) ==
    \E b \in mask.blobs : b.value # BACKGROUND /\ PixelCount(b) >= 1

\* C2: analyze_segmentation reports stone_detected iff the mask has a
\* foreground region: a mask with no foreground pixel gets exactly the
\* not-detected result, a mask with one or more regions gets
\* stone_detected = true.
C2_DetectedIffRegion ==
    \A r \in Requests :
        Analyzed(req[r]) =>
            LET a == req[r].analysis[1]
            IN  /\ a.stone_detected <=> HasForeground(req[r].mask)
                /\ ~HasForeground(req[r].mask) =>
                       a = [stone_detected |-> FALSE, size_pixels |-> 0,
                            location |-> "None", confidence |-> 0]

C2_Witness ==
    /\ Analyzed(req[1])
    /\ req[1].mask.blobs = {}
    /\ ~req[1].analysis[1].stone_detected

\* C3: the location follows the one documented rule on the centroid row cy
\* and the mask height h: "Upper Pole" iff cy < h/3, "Mid-Kidney" iff
\* h/3 <= cy < 2h/3, "Lower Pole" otherwise; cy = h/3 is "Mid-Kidney" and
\* cy = 2h/3 is "Lower Pole".
C3_LocationRule ==
    \A r \in Requests :
        (Analyzed(req[r]) /\ req[r].analysis[1].stone_detected) =>
            LET a == req[r].analysis[1]
                cy == a.center[2]
                h == req[r].mask.height
            IN  /\ a.location = "Upper Pole" <=> 3 * cy < h
                /\ a.location = "Mid-Kidney" <=> (h <= 3 * cy /\ 3 * cy < 2 * h)
                /\ a.location = "Lower Pole" <=> 2 * h <= 3 * cy

\* A centroid exactly at 2h/3, classified "Lower Pole".
C3_Witness ==
    /\ Analyzed(req[1])
    /\ req[1].analysis[1].stone_detected
    /\ req[1].analysis[1].size_pixels > 0
    /\ 3 * req[1].analysis[1].center[2] = 2 * req[1].mask.height
    /\ req[1].analysis[1].location = "Lower Pole"

\* The number of pixels of the region a contour encloses.
RegionPixelCount(c) == Cardinality(UNION {Pixels(b) : b \in c.region})

\* C4 as claimed: the primary region has the greatest area of all regions,
\* size_pixels is its area in pixels and center its centroid; one blob of A
\* pixels gives size_pixels = A.
C4_SizeIsPixelArea ==
    \A r \in Requests :
        (Analyzed(req[r]) /\ req[r].analysis[1].stone_detected) =>
            LET a == req[r].analysis[1]
                contours == findContours(req[r].mask)
            IN  \E i \in 1 .. Len(contours) :
                    /\ \A j \in 1 .. Len(contours) :
                           RegionPixelCount(contours[i]) >= RegionPixelCount(contours[j])
                    /\ a.size_pixels = RegionPixelCount(contours[i])
                    /\ a.center = Centroid(moments6(contours[i]))

\* C4 as amended: the primary region is the first one whose contour polygon
\* (through the centres of its border pixels) encloses the greatest area;
\* size_pixels is the integer part of that polygon's area and center is that
\* polygon's centroid.  A single block of w x h pixels gives
\* size_pixels = (w - 1) * (h - 1), not w * h.
C4_SizeIsContourArea ==
    \A r \in Requests :
        (Analyzed(req[r]) /\ req[r].analysis[1].stone_detected) =>
            LET a == req[r].analysis[1]
                contours == findContours(req[r].mask)
            IN  /\ \E i \in 1 .. Len(contours) :
                       /\ \A j \in 1 .. Len(contours) :
                              contourArea2(contours[i]) >= contourArea2(contours[j])
                       /\ \A j \in 1 .. (i - 1) :
                              contourArea2(contours[i]) > contourArea2(contours[j])
                       /\ 2 * a.size_pixels <= contourArea2(contours[i])
                       /\ contourArea2(contours[i]) < 2 * a.size_pixels + 2
                       /\ a.center = Centroid(moments6(contours[i]))
                /\ \A b \in req[r].mask.blobs :
                       (req[r].mask.blobs = {b} /\ b.shape = "rect") =>
                           a.size_pixels = (b.p[3] - b.p[1]) * (b.p[4] - b.p[2])

\* Two regions of different area, the larger one met first by the scan (so
\* extracted last), and the result is the larger one's.
C4_Witness ==
    /\ Analyzed(req[1])
    /\ Cardinality(req[1].mask.blobs) = 2
    /\ LET contours == findContours(req[1].mask)
       IN  /\ contourArea2(contours[2]) > contourArea2(contours[1])
           /\ contourArea2(contours[1]) > 0
           /\ 2 * req[1].analysis[1].size_pixels = contourArea2(contours[2])
           /\ req[1].analysis[1].center = Centroid(moments6(contours[2]))

\* generate_mock_segmentation has returned its mask to predict.
Segmented(q) ==
    /\ HasRun(q, "generate_mock_segmentation")
    /\ q.pc \in {"analyze_segmentation", "create_highlighted_image", "done"}

RaisedIn(q, stage) == q.err # <<>> /\ q.err[1].stage = stage

\* C5 as claimed: for every image of positive width and height, of any size,
\* generate_mock_segmentation does not raise, and the mask it returns is
\* single-channel, has the image's height and width and holds only 0 and 255.
C5_SegmentTotalAndBinary ==
    \A r \in Requests :
        (req[r].image.height > 0 /\ req[r].image.width > 0) =>
            /\ ~RaisedIn(req[r], "generate_mock_segmentation")
            /\ Segmented(req[r]) =>
                   /\ req[r].mask.height = req[r].image.height
                   /\ req[r].mask.width = req[r].image.width
                   /\ MaskValues(req[r].mask) \subseteq {BACKGROUND, FOREGROUND}

\* The ellipse stays inside the h x w mask: it lies within its major radius
\* of its centre.
InsideMask(blob, h, w) ==
    /\ 0 <= blob.p[1] - blob.p[3] /\ blob.p[1] + blob.p[3] <= w - 1
    /\ 0 <= blob.p[2] - blob.p[3] /\ blob.p[2] + blob.p[3] <= h - 1

\* generate_mock_segmentation has ended, by returning or by raising.
SegmenterEnded(q) == Segmented(q) \/ RaisedIn(q, "generate_mock_segmentation")

\* C6 as claimed: every run of the segmenter emits an all-background mask or
\* 1 to 3 ellipses; each ellipse has its centre at least 50 px from every
\* border, a major radius in [8, 25], a minor radius of 0.8 times the major
\* (truncated) and an angle r with 0 <= r < 180; no ellipse passes the border.
C6_BlobsWithinDocumentedRanges ==
    \A r \in Requests :
        SegmenterEnded(req[r]) =>
            LET q == req[r]
                w == q.mask.width
                h == q.mask.height
            IN  /\ Segmented(q)
                /\ Len(q.drawn) = 0 => q.mask.blobs = {}
                /\ Len(q.drawn) <= 3
                /\ q.mask.blobs = {q.drawn[i] : i \in 1 .. Len(q.drawn)}
                /\ \A i \in 1 .. Len(q.drawn) :
                       LET b == q.drawn[i]
                       IN  /\ 50 <= b.p[1] /\ b.p[1] <= w - 50
                           /\ 50 <= b.p[2] /\ b.p[2] <= h - 50
                           /\ 8 <= b.p[3] /\ b.p[3] <= 25
                           /\ 5 * b.p[4] <= 4 * b.p[3] /\ 4 * b.p[3] < 5 * b.p[4] + 5
                           /\ 0 <= b.p[5] /\ b.p[5] < 180
                           /\ InsideMask(b, h, w)

\* Every buffer of the request is free of drawing operations.
NothingDrawn(q) == \A i \in 1 .. Len(q.heap) : q.heap[i].ops = <<>>

\* C7: whenever analysis.stone_detected is false, create_highlighted_image
\* draws nothing (no fill, outline, arrow or label) and returns an image with
\* the pixels of the channel-converted original; so a run on an all-zero mask
\* returns stone_detected = false and the channel-normalized original.
C7_NotDetectedLeavesImage ==
    \A r \in Requests :
        req[r].pc = "done" =>
            LET q == req[r]
                ret == q.returned[1]
            IN  /\ ~ret.analysis.stone_detected =>
                       /\ q.writes = <<>>
                       /\ NothingDrawn(q)
                       /\ ret.highlighted_image.ops = <<>>
                       /\ ret.highlighted_image.channels = 3
                       /\ ret.highlighted_image =
                              [q.image EXCEPT !.channels = 3]
                /\ (Analyzed(q) /\ q.mask.blobs = {}) =>
                       /\ ~ret.analysis.stone_detected
                       /\ ret.highlighted_image = [q.image EXCEPT !.channels = 3]

\* A result that is not detected handed in with a mask that has regions and a
\* single-channel original: nothing is drawn.
C7_Witness ==
    /\ req[1].pc = "done"
    /\ ~req[1].returned[1].analysis.stone_detected
    /\ req[1].mask.blobs # {}
    /\ req[1].image.channels = 1
    /\ req[1].returned[1].highlighted_image.channels = 3

\* C8: create_highlighted_image never mutates its inputs: over the call the
\* original array and the mask keep their values, and every in-place drawing
\* call is made on a buffer allocated during the call.
C8_InputsNotMutated ==
    [][\A r \in Requests :
          (req[r].pc = "create_highlighted_image" /\ req'[r].pc = "done") =>
              /\ req'[r].heap[req[r].original] = req[r].heap[req[r].original]
              /\ req'[r].heap[req[r].normalized] = req[r].heap[req[r].normalized]
              /\ req'[r].mask = req[r].mask
              /\ \A i \in 1 .. Len(req'[r].writes) :
                     req'[r].writes[i] \notin 1 .. Len(req[r].heap)]_vars

\* A call on a 3-channel original that filled, blended, outlined, pointed at
\* and labelled two regions.
C8_Witness ==
    /\ req[1].pc = "done"
    /\ req[1].image.channels = 3
    /\ Len(req[1].writes) = 8
    /\ req[1].heap[req[1].original] = req[1].image

\* The stage a failed call stopped in is the last one it entered.
StoppedAtFailure(q) ==
    /\ q.err # <<>>
    /\ q.returned = <<>>
    /\ q.stages[Len(q.stages)] = q.err[1].stage

\* The error kind is kind: a zero-width or zero-height image makes predict
\* fail with that error, raised by preprocess_image before
\* analyze_segmentation or create_highlighted_image runs; predict returns no
\* result and the error reaches the caller; a failure in any stage stops the
\* pipeline there and propagates.
EmptyImageFailsWith(kind) ==
    \A r \in Requests :
        LET q == req[r]
        IN  /\ (IsEmptyArray(q.image) /\ q.stages # <<>>) =>
                   /\ q.pc \in {"except", "raised"}
                   /\ q.err = <<[kind |-> kind, stage |-> "preprocess_image"]>>
                   /\ ~HasRun(q, "generate_mock_segmentation")
                   /\ ~HasRun(q, "analyze_segmentation")
                   /\ ~HasRun(q, "create_highlighted_image")
            /\ q.pc \in {"except", "raised"} => StoppedAtFailure(q)
            /\ Finished(q) => (q.pc = "raised" <=> q.err # <<>>)
            /\ Finished(q) => (q.pc = "done" <=> q.returned # <<>>)

\* C9 as claimed: a zero-width or zero-height image makes predict fail with an
\* InvalidImage error raised before analyze_segmentation or
\* create_highlighted_image runs, and every failure propagates to the caller.
C9_EmptyImageRaisesInvalidImage == EmptyImageFailsWith("InvalidImage")

\* C10 as claimed: in any interleaving each call of predict ends as it would
\* have ended running alone on a generator of its own (in the state the
\* generator had at the call's first draw).
C10_RequestsIndependent ==
    \A r \in Requests :
        Finished(req[r]) =>
            Outcome(req[r]) =
                Outcome(predict(NewRequest(req[r].image, "preprocess_image"),
                                req[r].rng0))

\* The calls of one drawing function recorded on an array.
RECURSIVE CountOps(_, _)
CountOps(ops, name) ==
    IF ops = <<>> THEN 0
    ELSE (IF ops[1].op = name THEN 1 ELSE 0) + CountOps(Tail(ops), name)

\* The overlays of a call: the arrays whose last drawing is a fillPoly.
Fills(q) ==
    Cardinality({i \in 1 .. Len(q.heap) :
                    /\ q.heap[i].ops # <<>>
                    /\ q.heap[i].ops[Len(q.heap[i].ops)].op = "fillPoly"})

\* create_highlighted_image has returned for a detected result that carries
\* its center, on a mask of one or more regions.
AnnotatedDetected(q) ==
    /\ q.pc = "done"
    /\ q.returned # <<>>
    /\ q.returned[1].analysis.stone_detected
    /\ "center" \in DOMAIN q.returned[1].analysis
    /\ Len(findContours(q.mask)) >= 1

\* C11 as claimed: when stone_detected is true, one call of
\* create_highlighted_image on a mask of n >= 1 regions fills and outlines
\* each of the n regions and draws exactly one arrow and one "STONE" label
\* (for the primary region), never one arrow or label per region.
C11_OneArrowAndLabel ==
    \A r \in Requests :
        AnnotatedDetected(req[r]) =>
            LET n == Len(findContours(req[r].mask))
                ops == req[r].returned[1].highlighted_image.ops
            IN  /\ Fills(req[r]) = n
                /\ CountOps(ops, "drawContours") = n
                /\ CountOps(ops, "arrowedLine") = 1
                /\ CountOps(ops, "putText") = 1

\* The primary region of the mask is degenerate: the mask has foreground and
\* every region is one pixel wide or one pixel high, so the largest contour
\* area, and with it the zeroth moment of the primary region, is zero.
PrimaryDegenerate(mask) ==
    /\ HasForeground(mask)
    /\ \A b \in mask.blobs :
          /\ b.shape = "rect"
          /\ b.p[1] = b.p[3] \/ b.p[2] = b.p[4]

\* C12: if the primary region is degenerate (zeroth moment zero),
\* analyze_segmentation divides nothing and raises nothing: it returns a
\* detected result whose center is exactly (0, 0), whose location is the band
\* of cy = 0 under the normal rule, and whose size_pixels is the region's
\* area, zero.
C12_DegenerateRegion ==
    \A r \in Requests :
        (Analyzed(req[r]) /\ PrimaryDegenerate(req[r].mask)) =>
            /\ req[r].err = <<>>
            /\ req[r].pc \notin {"except", "raised"}
            /\ Len(req[r].analysis) = 1
            /\ LET a == req[r].analysis[1]
                   height == req[r].mask.height
               IN  /\ a.stone_detected
                   /\ "center" \in DOMAIN a
                   /\ a.center = <<0, 0>>
                   /\ a.size_pixels = 0
                   /\ a.location = (IF 3 * 0 < height THEN "Upper Pole"
                                    ELSE IF 3 * 0 < 2 * height THEN "Mid-Kidney"
                                    ELSE "Lower Pole")

\* A one-pixel-wide region in the bottom rows of a mask three or more rows
\* high, away from the origin: the result is detected, at (0, 0), in the
\* upper band.
C12_Witness ==
    /\ Analyzed(req[1])
    /\ PrimaryDegenerate(req[1].mask)
    /\ req[1].mask.height >= 3
    /\ \A b \in req[1].mask.blobs :
          b.p[1] >= 1 /\ 3 * b.p[2] >= 2 * req[1].mask.height
    /\ moments6(findContours(req[1].mask)[1]).m00 = 0
    /\ req[1].analysis[1].stone_detected
    /\ req[1].analysis[1].center = <<0, 0>>
    /\ req[1].analysis[1].location = "Upper Pole"
    /\ req[1].analysis[1].size_pixels = 0
====
